---- MODULE Spec2Model ----
(***************************************************************************)
(* Model of the invoicer crate: item prices and the grand total            *)
(* (src/src/invoice.rs), the money formatter (src/src/accounting.rs), the  *)
(* text measurement (src/src/pdf.rs), the staged conversion of an Invoice  *)
(* into a PDF document (impl From<Invoice> for PdfDocumentReference) and   *)
(* its saving (src/src/main.rs); the second line of an Address             *)
(* (src/src/address.rs, src/src/ares.rs) and the parsers of                *)
(* RegistrationNumber, Tin and Ein (src/src/registration_number.rs,        *)
(* src/src/entity/us.rs).                                                  *)
(*                                                                         *)
(* Representation.                                                         *)
(*  - A text (Rust String / &str) is a sequence of one-character strings,  *)
(*    so that concatenation, splitting at ' ' and measuring are computed   *)
(*    and not assumed.  The glyph "Kč" is written "Kc": the lexer of this  *)
(*    language admits no character beyond Latin-1 inside a string.         *)
(*  - A rust_decimal Decimal is a record [m, s]: the value m * 10^(-s).    *)
(*    The scale s is kept because Decimal::to_string prints s fractional   *)
(*    digits.                                                              *)
(*  - Lengths are integers in hundredths of a millimetre (Mm(5.0) is 500). *)
(***************************************************************************)
EXTENDS Integers, Sequences, FiniteSets, TLC

VARIABLES
    invoice,      \* the Invoice being converted (immutable input)
    pc,           \* position inside From<Invoice>::from
    y,            \* the vertical cursor `y`
    price_total,  \* the local `price_total`
    out,          \* what has been drawn on the layer, in order
    fmt,          \* last call of the money formatter (FmtSpec only)
    call,         \* last call of a function checked on its own (UnitSpec only)
    file          \* what main's output path "example.pdf" holds

vars == <<invoice, pc, y, price_total, out, fmt, call, file>>

(***************************************************************************)
(* Bounds of the model                                                     *)
(***************************************************************************)
\* longest item list of an invoice
MaxItems == 2
\* fractional digits kept when an f64 is converted to a Decimal
\* (rust_decimal keeps 15 significant digits; any finite number shows the
\* same rounding of 1/3-like multiplicators)
F64Digits == 4
\* largest scale of an amount handed to the formatter in FmtSpec
MaxScale == 3
\* most words of a description handed to the wrapping loop in UnitSpec
MaxWords == 3
\* writes the saved document reaches the file in
MaxChunks == 2

(***************************************************************************)
(* Texts                                                                   *)
(***************************************************************************)
Digits == <<"0", "1", "2", "3", "4", "5", "6", "7", "8", "9">>

RECURSIVE Pow10(_)
Pow10(n) == IF n = 0 THEN 1 ELSE 10 * Pow10(n - 1)

Abs(n) == IF n < 0 THEN -n ELSE n

\* u32::to_string / the digits of a natural number
RECURSIVE NatStr(_)
NatStr(n) == IF n < 10 THEN <<Digits[n + 1]>>
             ELSE NatStr(n \div 10) \o <<Digits[(n % 10) + 1]>>

\* n printed on exactly w digits (leading zeros)
RECURSIVE PadNat(_, _)
PadNat(n, w) == IF w = 0 THEN <<>>
                ELSE PadNat(n \div 10, w - 1) \o <<Digits[(n % 10) + 1]>>

\* str::split(' '): the pieces between single spaces, empty pieces included
RECURSIVE SplitSpace(_)
SplitSpace(t) ==
    IF \A i \in 1..Len(t) : t[i] # " " THEN <<t>>
    ELSE LET i == CHOOSE k \in 1..Len(t) :
                      t[k] = " " /\ \A j \in 1..(k - 1) : t[j] # " "
         IN <<SubSeq(t, 1, i - 1)>> \o SplitSpace(SubSeq(t, i + 1, Len(t)))

(***************************************************************************)
(* rust_decimal::Decimal                                                   *)
(***************************************************************************)
Dec(m, s) == [m |-> m, s |-> s]

Max(a, b) == IF a >= b THEN a ELSE b

\* the mantissa of d at scale s >= d.s
Rescale(d, s) == d.m * Pow10(s - d.s)

\* Decimal + Decimal: exact, at the larger of the two scales
DecAdd(a, b) ==
    LET s == Max(a.s, b.s) IN Dec(Rescale(a, s) + Rescale(b, s), s)

\* Decimal * Decimal: exact, the scales add
DecMul(a, b) == Dec(a.m * b.m, a.s + b.s)

\* numeric comparison (Decimal's Ord / PartialEq ignore the scale)
DecLess(a, b) ==
    LET s == Max(a.s, b.s) IN Rescale(a, s) < Rescale(b, s)

DecEq(a, b) ==
    LET s == Max(a.s, b.s) IN Rescale(a, s) = Rescale(b, s)

\* Decimal::max
DecMax(a, b) == IF DecLess(a, b) THEN b ELSE a

\* trailing fractional zeros removed
RECURSIVE Normalize(_)
Normalize(d) == IF d.s > 0 /\ d.m % 10 = 0
                THEN Normalize(Dec(d.m \div 10, d.s - 1)) ELSE d

\* Decimal::from_u32
DecFromU32(n) == Dec(n, 0)

\* Decimal::to_string: sign, integer part, '.' and exactly s fractional digits
DecToString(d) ==
    LET a == Abs(d.m)
        p == Pow10(d.s)
    IN (IF d.m < 0 THEN <<"-">> ELSE <<>>)
       \o NatStr(a \div p)
       \o (IF d.s > 0 THEN <<".">> \o PadNat(a % p, d.s) ELSE <<>>)

\* Decimal::round_dp(p) of a non-negative Decimal: midpoint to even; a value
\* of scale <= p is returned unchanged
RoundDp(d, p) ==
    IF d.s <= p THEN d
    ELSE LET u == Pow10(d.s - p)
             q == d.m \div u
             r == d.m % u
             up == (2 * r > u) \/ (2 * r = u /\ q % 2 = 1)
         IN Dec(IF up THEN q + 1 ELSE q, p)

(***************************************************************************)
(* iso_currency::Currency, as far as the formatter reads it                *)
(***************************************************************************)
Currencies == {"CZK", "EUR", "USD", "JPY", "BHD", "XAU"}

\* Currency::symbol().to_string()
CurrencySymbol(c) ==
    CASE c = "CZK" -> <<"K", "c">>
      [] c = "EUR" -> <<"€">>
      [] c = "USD" -> <<"$">>
      [] c = "JPY" -> <<"Y">>
      [] c = "BHD" -> <<"B", "D">>
      [] OTHER     -> <<"X", "A", "U">>

\* Currency::exponent(): Option<u16>, Some(e) as <<e>> and None as <<>>
\* (XAU has no minor unit)
CurrencyExponent(c) ==
    CASE c \in {"CZK", "EUR", "USD"} -> <<2>>
      [] c = "JPY" -> <<0>>
      [] c = "BHD" -> <<3>>
      [] OTHER     -> <<>>

\* Currency::code()
CurrencyCode(c) ==
    CASE c = "CZK" -> <<"C", "Z", "K">>
      [] c = "EUR" -> <<"E", "U", "R">>
      [] c = "USD" -> <<"U", "S", "D">>
      [] c = "JPY" -> <<"J", "P", "Y">>
      [] c = "BHD" -> <<"B", "H", "D">>
      [] OTHER     -> <<"X", "A", "U">>

(***************************************************************************)
(* accounting::Accounting and create_accounting_from_currency              *)
(* A format template is a sequence of tokens: "{v}", "{s}" or a character. *)
(***************************************************************************)
SuffixFormat == <<"{v}", " ", "{s}">>
PrefixFormat == <<"{s}", "{v}">>

\* exponent().unwrap_or(2)
UnwrapOr2(e) == IF e = <<>> THEN 2 ELSE e[1]

\* lines 5-12: the default rule, set for every currency
DefaultAccounting(currency) ==
    [symbol          |-> CurrencySymbol(currency),
     precision       |-> UnwrapOr2(CurrencyExponent(currency)),
     format          |-> SuffixFormat,
     format_positive |-> SuffixFormat,
     format_negative |-> <<"-">> \o SuffixFormat,
     format_zero     |-> SuffixFormat,
     decimal         |-> <<",">>,
     thousand        |-> <<" ">>]

\* lines 17-32: what the EUR and USD arms set
SymbolFirst(ac, dec, thousand) ==
    [ac EXCEPT !.format          = PrefixFormat,
               !.format_positive = PrefixFormat,
               !.format_zero     = PrefixFormat,
               !.format_negative = <<"-">> \o PrefixFormat,
               !.decimal         = dec,
               !.thousand        = thousand]

Mut_create_accounting_swapped(currency) ==
    LET ac == DefaultAccounting(currency)
    IN CASE currency = "EUR" -> SymbolFirst(ac, <<".">>, <<",">>)
         [] currency = "USD" -> SymbolFirst(ac, <<",">>, <<".">>)
         [] OTHER            -> ac

Mut_create_accounting_czk_only(currency) ==
    LET ac == DefaultAccounting(currency)
    IN CASE currency = "CZK" -> ac
         [] OTHER            -> SymbolFirst(ac, <<".">>, <<",">>)

create_accounting_from_currency(currency) ==
    LET ac == DefaultAccounting(currency)
    IN CASE currency = "CZK" -> ac
         [] currency = "EUR" -> SymbolFirst(ac, <<",">>, <<".">>)
         [] currency = "USD" -> SymbolFirst(ac, <<".">>, <<",">>)
         [] OTHER            -> ac

\* the integer part in groups of three digits
RECURSIVE GroupThousands(_, _)
GroupThousands(n, sep) ==
    IF n < 1000 THEN NatStr(n)
    ELSE GroupThousands(n \div 1000, sep) \o sep \o PadNat(n % 1000, 3)

\* FormatNumber::format_number of a non-negative Decimal: rounded to
\* `precision` places, grouped, with the two separators
FormatNumber(d, precision, thousand, decimal) ==
    LET r == RoundDp(d, precision)
        p == Pow10(r.s)
    IN GroupThousands(r.m \div p, thousand)
       \o (IF precision > 0
           THEN decimal \o PadNat((r.m % p) * Pow10(precision - r.s), precision)
           ELSE <<>>)

\* a template with {v} and {s} replaced
RECURSIVE ApplyFormat(_, _, _)
ApplyFormat(tpl, v, s) ==
    IF tpl = <<>> THEN <<>>
    ELSE (CASE Head(tpl) = "{v}" -> v
            [] Head(tpl) = "{s}" -> s
            [] OTHER            -> <<Head(tpl)>>)
         \o ApplyFormat(Tail(tpl), v, s)

\* which template format_money takes for a value
TemplateOf(ac, d) ==
    IF d.m < 0 THEN ac.format_negative
    ELSE IF d.m = 0 THEN ac.format_zero
    ELSE ac.format_positive

Mut_format_money_no_sign(ac, d) ==
    ApplyFormat(ac.format_positive,
                FormatNumber(Dec(Abs(d.m), d.s), ac.precision, ac.thousand, ac.decimal),
                ac.symbol)

\* Accounting::format_money
format_money(ac, d) ==
    ApplyFormat(TemplateOf(ac, d),
                FormatNumber(Dec(Abs(d.m), d.s), ac.precision, ac.thousand, ac.decimal),
                ac.symbol)

(***************************************************************************)
(* Time and InvoiceItem                                                    *)
(***************************************************************************)
Hours(h, m)  == [tag |-> "Hours", hours |-> h, minutes |-> m]
Quantity(n)  == [tag |-> "Quantity", quantity |-> n]
Other(text)  == [tag |-> "Other", other |-> text]

\* InvoiceItem::new
Item(item_type, description, price_per_unit) ==
    [item_type |-> item_type, description |-> description,
     price_per_unit |-> price_per_unit]

\* Time::hour_multiplicator: the f64 hours + minutes / 60.0, kept as the
\* number of sixtieths it stands for
hour_multiplicator(time) == 60 * time.hours + time.minutes

\* Decimal::from_f64 of a multiplicator of n sixtieths: the nearest decimal
\* with F64Digits fractional digits, trailing zeros dropped
DecFromF64(n) ==
    Normalize(Dec((2 * n * Pow10(F64Digits) + 60) \div 120, F64Digits))

\* f64::to_string of a multiplicator: its shortest decimal form
F64ToString(n) == DecToString(DecFromF64(n))

Mut_price_truncates_minutes(item) ==
    CASE item.item_type.tag = "Hours" ->
            DecMul(DecFromU32(item.item_type.hours), item.price_per_unit)
      [] item.item_type.tag = "Quantity" ->
            DecMul(DecFromU32(item.item_type.quantity), item.price_per_unit)
      [] OTHER -> item.price_per_unit

\* InvoiceItem::price
price(item) ==
    CASE item.item_type.tag = "Hours" ->
            DecMul(DecFromF64(hour_multiplicator(item.item_type)),
                   item.price_per_unit)
      [] item.item_type.tag = "Quantity" ->
            DecMul(DecFromU32(item.item_type.quantity), item.price_per_unit)
      [] OTHER -> item.price_per_unit

\* dec!(0.0)
DecZero == Dec(0, 1)

RECURSIVE Mut_fold_last_only(_, _)
Mut_fold_last_only(acc, items) ==
    IF items = <<>> THEN acc
    ELSE Mut_fold_last_only(price(Head(items)), Tail(items))

\* items.iter().fold(acc, |acc, item| acc + item.price())
RECURSIVE FoldPrices(_, _)
FoldPrices(acc, items) ==
    IF items = <<>> THEN acc
    ELSE FoldPrices(DecAdd(acc, price(Head(items))), Tail(items))

(***************************************************************************)
(* Text measurement (pdf.rs)                                               *)
(***************************************************************************)
\* advance of a glyph in hundredths of an em (the font's metrics table)
CharAdvance(c) ==
    IF c \in {"i", "l", ".", ",", " ", "-"} THEN 27
    ELSE IF c \in {"m", "w", "M", "W"} THEN 90
    ELSE 57

\* advance of the space glyph, same unit
SpaceAdvance == CharAdvance(" ")

RECURSIVE SumAdvance(_)
SumAdvance(w) == IF w = <<>> THEN 0 ELSE CharAdvance(Head(w)) + SumAdvance(Tail(w))

RECURSIVE NonEmpty(_)
NonEmpty(ws) == IF ws = <<>> THEN <<>>
                ELSE (IF Head(ws) = <<>> THEN <<>> ELSE <<Head(ws)>>)
                     \o NonEmpty(Tail(ws))

\* split_text_into_words + words_to_scaled_words: the words of the text
\* between white space; the empty text yields one empty word
ScaledWords(text) ==
    IF text = <<>> THEN << <<>> >> ELSE NonEmpty(SplitSpace(text))

RECURSIVE SumWordWidths(_, _)
SumWordWidths(ws, size) ==
    IF ws = <<>> THEN 0
    ELSE SumAdvance(Head(ws)) * size + SumWordWidths(Tail(ws), size)

\* Mm::from(Pt(w)) for w in thousandths of a point: 1 pt = 25.4 / 72 mm
PtToMm(w) == (w * 127) \div 3600

\* `scaled_words.items.len() - 1` on usize underflows for a text without
\* words: a panic with overflow checks, a wrapped (huge) count without
TextWidthUnderflows(text) == Len(ScaledWords(text)) = 0

Mut_calculate_text_width_space_per_word(text, size) ==
    LET ws == ScaledWords(text)
    IN PtToMm(Len(ws) * SpaceAdvance * size + SumWordWidths(ws, size))

\* calculate_text_width(text, pdf, font_size); size in tenths of a point
calculate_text_width(text, size) ==
    LET ws == ScaledWords(text)
    IN PtToMm((Len(ws) - 1) * SpaceAdvance * size + SumWordWidths(ws, size))

(***************************************************************************)
(* Page geometry, hundredths of a millimetre                               *)
(***************************************************************************)
line_height     == 500
gap             == 500
left_half       == 1000
left_half_max   == 10375
right_half      == 11625
right_half_max  == 20000
PageTop         == 28650
heading_height  == 1800
entity_base     == 600
\* font sizes, tenths of a point
table_font_size == 92
total_font_size == 160
text_font_size  == 100

Celkem   == <<"C", "E", "L", "K", "E", "M">>
CenaZaMj == <<"C", "E", "N", "A", " ", "Z", "A", " ", "M", "J">>

(***************************************************************************)
(* Invoice::pdf_draw_items                                                 *)
(***************************************************************************)
\* the text drawn in the left column of a row
CountText(item) ==
    CASE item.item_type.tag = "Hours" ->
            F64ToString(hour_multiplicator(item.item_type))
      [] item.item_type.tag = "Quantity" -> NatStr(item.item_type.quantity)
      [] OTHER -> item.item_type.other

\* the first loop: max_price, max_price_per_unit and longest_count
RECURSIVE PrePass(_, _)
PrePass(items, acc) ==
    IF items = <<>> THEN acc
    ELSE LET item  == Head(items)
             count == CountText(item)
             longer == item.item_type.tag \in {"Hours", "Quantity"}
                       /\ Len(count) > Len(acc.longest_count)
         IN PrePass(Tail(items),
                [max_price          |-> DecMax(acc.max_price, price(item)),
                 max_price_per_unit |-> DecMax(acc.max_price_per_unit,
                                               item.price_per_unit),
                 longest_count      |-> IF longer THEN count
                                        ELSE acc.longest_count])

\* one turn of the loop over item.description.split(' '), nd being
\* new_description after the two pushes
RECURSIVE WrapWords(_, _, _, _)
WrapStep(rest, nd, commit, threshold, done) ==
    WrapWords(rest,
              IF commit THEN <<>> ELSE nd,
              threshold,
              [lines  |-> IF commit THEN done.lines \o <<nd>> ELSE done.lines,
               breaks |-> IF commit THEN done.breaks + 1 ELSE done.breaks,
               underflow |-> done.underflow \/ TextWidthUnderflows(nd)])

Mut_WrapWords_strict(words, new_description, threshold, done) ==
    IF words = <<>>
    THEN [lines  |-> IF new_description # <<>>
                     THEN done.lines \o <<new_description>> ELSE done.lines,
          breaks |-> done.breaks,
          underflow |-> done.underflow]
    ELSE WrapStep(Tail(words),
                  new_description \o Head(words) \o <<" ">>,
                  calculate_text_width(new_description \o Head(words) \o <<" ">>,
                                       table_font_size) > threshold,
                  threshold, done)

Mut_WrapWords_no_flush(words, new_description, threshold, done) ==
    IF words = <<>>
    THEN [lines  |-> done.lines,
          breaks |-> done.breaks,
          underflow |-> done.underflow]
    ELSE WrapStep(Tail(words),
                  new_description \o Head(words) \o <<" ">>,
                  calculate_text_width(new_description \o Head(words) \o <<" ">>,
                                       table_font_size) >= threshold,
                  threshold, done)

\* lines 566-583: the loop and the flush of what is left
WrapWords(words, new_description, threshold, done) ==
    IF words = <<>>
    THEN [lines  |-> IF new_description # <<>>
                     THEN done.lines \o <<new_description>> ELSE done.lines,
          breaks |-> done.breaks,
          underflow |-> done.underflow]
    ELSE WrapStep(Tail(words),
                  new_description \o Head(words) \o <<" ">>,
                  calculate_text_width(new_description \o Head(words) \o <<" ">>,
                                       table_font_size) >= threshold,
                  threshold, done)

\* lines 540-586: the description of one row, wrapped when wider than the
\* threshold
DrawDescription(description, threshold) ==
    IF calculate_text_width(description, table_font_size) > threshold
    THEN WrapWords(SplitSpace(description), <<>>, threshold,
                   [lines |-> <<>>, breaks |-> 0, underflow |-> FALSE])
    ELSE [lines |-> <<description>>, breaks |-> 0, underflow |-> FALSE]

\* the label drawn after the count
UnitLabel(item) ==
    CASE item.item_type.tag = "Hours" -> <<"h", "o", "d">>
      [] item.item_type.tag = "Quantity" -> <<"k", "s">>
      [] OTHER -> <<>>

\* the draw calls of one row, from the texts and their measured widths
Mut_RowAt_unit_price_by_total_width(item, ctx, y_offset, i, d, ppu, pr, ppu_w, pr_w) ==
    [draw |->
       [kind       |-> "row",
        index      |-> i,
        y          |-> ctx.top - y_offset,
        left       |-> CountText(item),
        label      |-> UnitLabel(item),
        label_x    |-> ctx.x0 + ctx.count_offset + gap,
        lines      |-> d.lines,
        lines_x    |-> ctx.x0 + ctx.count_offset + gap * 3,
        unit_price |-> ppu,
        unit_x     |-> ctx.max_position - ctx.total_price_width
                       - ctx.max_price_width - pr_w - gap,
        unit_w     |-> ppu_w,
        amount     |-> price(item),
        line_total |-> pr,
        total_x    |-> ctx.max_position - pr_w,
        total_w    |-> pr_w,
        size       |-> table_font_size],
     advance   |-> (line_height * 5) \div 4 + d.breaks * line_height,
     underflow |-> TextWidthUnderflows(item.description) \/ d.underflow
                   \/ TextWidthUnderflows(ppu) \/ TextWidthUnderflows(pr)]

RowAt(item, ctx, y_offset, i, d, ppu, pr, ppu_w, pr_w) ==
    [draw |->
       [kind       |-> "row",
        index      |-> i,
        y          |-> ctx.top - y_offset,
        left       |-> CountText(item),
        label      |-> UnitLabel(item),
        label_x    |-> ctx.x0 + ctx.count_offset + gap,
        lines      |-> d.lines,
        lines_x    |-> ctx.x0 + ctx.count_offset + gap * 3,
        unit_price |-> ppu,
        unit_x     |-> ctx.max_position - ctx.total_price_width
                       - ctx.max_price_width - ppu_w - gap,
        unit_w     |-> ppu_w,
        amount     |-> price(item),
        line_total |-> pr,
        total_x    |-> ctx.max_position - pr_w,
        total_w    |-> pr_w,
        size       |-> table_font_size],
     advance   |-> (line_height * 5) \div 4 + d.breaks * line_height,
     underflow |-> TextWidthUnderflows(item.description) \/ d.underflow
                   \/ TextWidthUnderflows(ppu) \/ TextWidthUnderflows(pr)]

RowTexts(item, ctx, y_offset, i, d, ppu, pr) ==
    RowAt(item, ctx, y_offset, i, d, ppu, pr,
          calculate_text_width(ppu, table_font_size),
          calculate_text_width(pr, table_font_size))

\* lines 490-615: one row; ctx holds the values computed before the loop
DrawRow(item, ctx, y_offset, i) ==
    RowTexts(item, ctx, y_offset, i,
             DrawDescription(item.description, ctx.threshold),
             format_money(ctx.ac, item.price_per_unit),
             format_money(ctx.ac, price(item)))

RECURSIVE DrawRows(_, _, _, _, _)
DrawRows(items, ctx, y_offset, i, acc) ==
    IF items = <<>> THEN [draws |-> acc.draws, y_offset |-> y_offset,
                          underflow |-> acc.underflow]
    ELSE DrawRows(Tail(items), ctx,
                  y_offset + DrawRow(Head(items), ctx, y_offset, i).advance,
                  i + 1,
                  [draws |-> Append(acc.draws,
                                    DrawRow(Head(items), ctx, y_offset, i).draw),
                   underflow |-> acc.underflow
                       \/ DrawRow(Head(items), ctx, y_offset, i).underflow])

\* lines 443-462 and 486: the widths measured before the rows are drawn
TableWidths(longest_count, max_price, total_price) ==
    [max_price_width      |-> calculate_text_width(max_price, table_font_size),
     total_price_width    |-> calculate_text_width(Celkem, table_font_size),
     price_per_unit_width |-> calculate_text_width(CenaZaMj, table_font_size),
     count_offset         |-> calculate_text_width(longest_count, table_font_size),
     total_w              |-> calculate_text_width(total_price, total_font_size),
     underflow            |-> TextWidthUnderflows(max_price)
                              \/ TextWidthUnderflows(longest_count)
                              \/ TextWidthUnderflows(total_price)]

\* lines 552-559: start, end and threshold of the description column
Threshold(w, max_position, position) ==
    (max_position - w.total_price_width - w.max_price_width
       - w.price_per_unit_width - gap * 4)
    - (position[1] + w.count_offset + gap * 3)

RowContext(ac, w, max_position, position) ==
    [ac |-> ac, x0 |-> position[1], max_position |-> max_position,
     top |-> position[2] - line_height * 4,
     count_offset |-> w.count_offset,
     total_price_width |-> w.total_price_width,
     max_price_width |-> w.max_price_width,
     threshold |-> Threshold(w, max_position, position)]

\* lines 467-481 and 617-686: header, rows, grand total and the return value
TableDraws(w, rows, total_price, max_position, position) ==
    [draws |->
        <<[kind |-> "header",
           celkem_x |-> max_position - w.total_price_width,
           cena_x |-> max_position - w.total_price_width - w.max_price_width
                      - w.price_per_unit_width - gap,
           max_price_width |-> w.max_price_width,
           count_offset |-> w.count_offset,
           threshold |-> Threshold(w, max_position, position),
           size |-> table_font_size]>>
        \o rows.draws
        \o <<[kind |-> "total", text |-> total_price,
              x |-> max_position - w.total_w, w |-> w.total_w,
              size |-> total_font_size,
              y |-> position[2] - line_height * 4 - rows.y_offset
                    - (line_height * 12) \div 5]>>,
     ret |-> <<max_position,
               position[2] - line_height * 4 - rows.y_offset
               - (line_height * 12) \div 5>>,
     underflow |-> w.underflow \/ rows.underflow]

TableWith(items, ac, w, total_price, max_position, position) ==
    TableDraws(w,
               DrawRows(items, RowContext(ac, w, max_position, position),
                        line_height, 1, [draws |-> <<>>, underflow |-> FALSE]),
               total_price, max_position, position)

TableFrom(items, ac, pre, total, max_position, position) ==
    TableWith(items, ac,
              TableWidths(pre.longest_count, format_money(ac, pre.max_price),
                          format_money(ac, total)),
              format_money(ac, total), max_position, position)

\* Invoice::pdf_draw_items(items, currency, price_total, pdf, max_position,
\* position): what it draws, what it returns, and whether a measurement
\* underflowed on the way
pdf_draw_items(items, currency, total, max_position, position) ==
    TableFrom(items, create_accounting_from_currency(currency),
              PrePass(items, [max_price |-> DecZero,
                              max_price_per_unit |-> DecZero,
                              longest_count |-> <<>>]),
              total, max_position, position)

(***************************************************************************)
(* The inputs of a conversion                                              *)
(***************************************************************************)
Cash             == [tag |-> "Cash"]
Card(reference)  == [tag |-> "Card", text |-> reference]
BankTransfer(vs) == [tag |-> "BankTransfer", text |-> vs]

ShortText == <<"a", "b", " ", "c", "d">>
OtherUnit == <<"k", "m">>
VarSymbol == <<"2", "0", "2", "4", "0", "3">>
NoteText  == <<"d", "i", "k", "y">>

\* Iban: its electronic form (no spaces), as electronic_str() returns it
TheIban == [electronic |-> <<"C", "Z", "6", "5", "0", "8", "0", "0",
                             "0", "0", "0", "0", "1", "9", "2", "0",
                             "0", "0", "1", "4", "5", "3", "9", "9">>]

\* Entity, restricted to the fields drawn right-aligned: a contractor that
\* pays VAT and a client that does not
TheContractor ==
    [identifier |-> <<"2", "7", "0", "8", "2", "4", "4", "0">>,
     vat_number |-> << <<"C", "Z", "2", "7", "0", "8", "2", "4", "4", "0">> >>]

TheClient ==
    [identifier |-> <<"4", "5", "2", "7", "4", "6", "4", "9">>,
     vat_number |-> <<>>]

\* a word wider than the description column of any table
LongWord == [i \in 1..44 |-> "m"]

\* descriptions that are wrapped: the last word left for a final line, and
\* the last word committing its line
LongThenShort == LongWord \o <<" ", "a", "b">>
TwoLong       == LongWord \o <<" ">> \o LongWord

ItemPool ==
    { Item(Hours(1, 30), ShortText, Dec(350, 0)),
      Item(Hours(1, 30), ShortText, Dec(3500, 1)),
      Item(Hours(1, 30), <<>>, Dec(100, 0)),
      Item(Hours(0, 20), ShortText, Dec(30, 0)),
      Item(Quantity(3), ShortText, Dec(50, 0)),
      Item(Other(OtherUnit), <<>>, Dec(75, 0)),
      Item(Other(<<>>), ShortText, Dec(75, 0)),
      Item(Hours(1, 30), LongThenShort, Dec(100, 0)),
      Item(Quantity(1), TwoLong, Dec(-50, 0)) }

RECURSIVE SeqsUpTo(_, _)
SeqsUpTo(S, n) ==
    IF n = 0 THEN {<<>>}
    ELSE LET shorter == SeqsUpTo(S, n - 1)
         IN shorter \cup {Append(q, x) : q \in {t \in shorter : Len(t) = n - 1},
                                         x \in S}

PaymentMethods == {Cash, Card(VarSymbol), BankTransfer(VarSymbol)}

\* NaiveDate as a day number: the issue date and the due dates tried with it
IssueDays == {2}
DueDays   == {1, 3}

\* Invoice::new, restricted to the fields the conversion reads
Invoices ==
    [contractor     : {TheContractor},
     client         : {TheClient},
     items          : SeqsUpTo(ItemPool, MaxItems),
     payment_method : PaymentMethods,
     currency       : {"CZK", "EUR"},
     note           : {<<>>, <<NoteText>>},
     iban           : {TheIban},
     date           : IssueDays,
     due_date       : DueDays]

NoFmt == [status |-> "idle"]

NoCall == [fn |-> "none"]

\* the output path before main runs: no file
NoFile == [state |-> "absent", written |-> 0]

Init ==
    /\ invoice \in Invoices
    /\ pc = "start"
    /\ y = PageTop
    /\ price_total = DecZero
    /\ out = <<>>
    /\ fmt = NoFmt
    /\ call = NoCall
    /\ file = NoFile

(***************************************************************************)
(* impl From<Invoice> for PdfDocumentReference, stage by stage             *)
(***************************************************************************)
\* lines 709-712
ComputeTotal ==
    /\ pc = "start"
    /\ price_total' = FoldPrices(DecZero, invoice.items)
    /\ pc' = "heading"
    /\ UNCHANGED <<invoice, y, out, fmt, call, file>>

\* lines 770-777: pdf_draw_heading_text returns (Mm(84.0), Mm(18.0))
Heading ==
    /\ pc = "heading"
    /\ out' = Append(out, [kind |-> "heading", y |-> y])
    /\ y' = y - heading_height
    /\ pc' = "entities"
    /\ UNCHANGED <<invoice, price_total, fmt, call, file>>

\* pdf_draw_entity_info returns (max_position, Mm(6.0) + line_height * 8.0)
entity_height == entity_base + line_height * 8

\* PdfLayerReference::use_text(text, font_size, x, y, font): one run of text
use_text(text, font_size, x, y_) ==
    [text |-> text, size |-> font_size, x |-> x, y |-> y_]

\* lines 226-255: the identifier, and the VAT number when there is one,
\* with the value returned
pdf_draw_entity_info(entity, type, max_position, position) ==
    [draw |->
       [kind |-> "entity", role |-> type, y |-> position[2],
        identifier |->
            use_text(entity.identifier, text_font_size,
                     max_position - calculate_text_width(entity.identifier,
                                                         text_font_size),
                     position[2] - (entity_base + line_height * 6)),
        vat |->
            IF entity.vat_number # <<>>
            THEN <<use_text(entity.vat_number[1], text_font_size,
                            max_position
                              - calculate_text_width(entity.vat_number[1],
                                                     text_font_size),
                            position[2] - (entity_base + line_height * 7))>>
            ELSE <<>>],
     ret |-> <<max_position, entity_height>>]

\* lines 779-795
EntityInfo ==
    /\ pc = "entities"
    /\ out' = out \o <<pdf_draw_entity_info(invoice.contractor, "Contractor",
                                            left_half_max, <<left_half, y>>).draw,
                       pdf_draw_entity_info(invoice.client, "Client",
                                            right_half_max, <<right_half, y>>).draw>>
    /\ y' = y - (Max(pdf_draw_entity_info(invoice.contractor, "Contractor",
                                          left_half_max, <<left_half, y>>).ret[2],
                     pdf_draw_entity_info(invoice.client, "Client",
                                          right_half_max, <<right_half, y>>).ret[2])
                 + line_height)
    /\ pc' = "payment"
    /\ UNCHANGED <<invoice, price_total, fmt, call, file>>

\* pdf_draw_payment_method: todo!() panics for Cash and for Card
PaymentMethodPanics(payment_method) ==
    payment_method.tag \in {"Cash", "Card"}

\* Display of Iban: the print format, groups of four separated by spaces
RECURSIVE IbanToString(_)
IbanToString(electronic) ==
    IF Len(electronic) <= 4 THEN electronic
    ELSE SubSeq(electronic, 1, 4) \o <<" ">>
         \o IbanToString(SubSeq(electronic, 5, Len(electronic)))

\* str::trim_start_matches('0')
RECURSIVE TrimStartZeros(_)
TrimStartZeros(t) ==
    IF t # <<>> /\ Head(t) = "0" THEN TrimStartZeros(Tail(t)) ELSE t

IsNoSpace(c) == c # " "

\* lines 860-866: value[5..9] is the bank code, value[9..] the account number
to_bank_account_number(iban) ==
    TrimStartZeros(SelectSeq(SubSeq(IbanToString(iban.electronic), 10,
                                    Len(IbanToString(iban.electronic))),
                             IsNoSpace))
    \o <<"/">> \o SubSeq(IbanToString(iban.electronic), 6, 9)

\* the payment type drawn for a bank transfer
Prevodem == <<"P", "r", "e", "v", "o", "d", "e", "m">>

\* lines 282-334, the BankTransfer arm: account, variable symbol and type
pdf_draw_payment_method(iban, payment_method, max_position, position) ==
    [draw |->
       [kind |-> "payment", y |-> position[2],
        bank_account |->
            use_text(to_bank_account_number(iban), text_font_size,
                     max_position
                       - calculate_text_width(to_bank_account_number(iban),
                                              text_font_size),
                     position[2] - line_height),
        var_symbol |->
            use_text(payment_method.text, text_font_size,
                     max_position - calculate_text_width(payment_method.text,
                                                         text_font_size),
                     position[2] - line_height * 2),
        type |->
            use_text(Prevodem, text_font_size,
                     max_position - calculate_text_width(Prevodem,
                                                         text_font_size),
                     position[2] - line_height * 3)],
     ret |-> <<max_position, line_height * 3>>]

\* NaiveDate::format("%d. %m. %Y") of day d of March 2024
FormatDate(d) ==
    PadNat(d, 2) \o <<".", " ", "0", "3", ".", " ", "2", "0", "2", "4">>

\* lines 339-387
pdf_draw_dates(invoice_date, due_date, max_position, position) ==
    [draw |->
       [kind |-> "dates", y |-> position[2],
        date |-> invoice_date, due_date |-> due_date,
        invoice_date_run |->
            use_text(FormatDate(invoice_date), text_font_size,
                     max_position
                       - calculate_text_width(FormatDate(invoice_date),
                                              text_font_size),
                     position[2] - line_height),
        due_date_run |->
            use_text(FormatDate(due_date), text_font_size,
                     max_position - calculate_text_width(FormatDate(due_date),
                                                         text_font_size),
                     position[2] - line_height * 2)],
     ret |-> <<max_position, line_height * 2>>]

Mut_PaymentAndDates_draws_qr ==
    /\ pc = "payment"
    /\ IF PaymentMethodPanics(invoice.payment_method)
       THEN /\ pc' = "panicked"
            /\ UNCHANGED <<y, out>>
       ELSE /\ out' = out \o <<pdf_draw_payment_method(
                                   invoice.iban, invoice.payment_method,
                                   left_half_max, <<left_half, y>>).draw,
                               [kind |-> "qr", payload |-> <<>>,
                                x |-> left_half, y |-> y],
                               pdf_draw_dates(invoice.date, invoice.due_date,
                                              right_half_max,
                                              <<right_half, y>>).draw>>
            /\ y' = y - Max(pdf_draw_dates(invoice.date, invoice.due_date,
                                           right_half_max,
                                           <<right_half, y>>).ret[2],
                            pdf_draw_payment_method(
                                invoice.iban, invoice.payment_method,
                                left_half_max, <<left_half, y>>).ret[2])
            /\ pc' = "items"
    /\ UNCHANGED <<invoice, price_total, fmt, call, file>>

\* lines 797-813
PaymentAndDates ==
    /\ pc = "payment"
    /\ IF PaymentMethodPanics(invoice.payment_method)
       THEN /\ pc' = "panicked"
            /\ UNCHANGED <<y, out>>
       ELSE /\ out' = out \o <<pdf_draw_payment_method(
                                   invoice.iban, invoice.payment_method,
                                   left_half_max, <<left_half, y>>).draw,
                               pdf_draw_dates(invoice.date, invoice.due_date,
                                              right_half_max,
                                              <<right_half, y>>).draw>>
            /\ y' = y - Max(pdf_draw_dates(invoice.date, invoice.due_date,
                                           right_half_max,
                                           <<right_half, y>>).ret[2],
                            pdf_draw_payment_method(
                                invoice.iban, invoice.payment_method,
                                left_half_max, <<left_half, y>>).ret[2])
            /\ pc' = "items"
    /\ UNCHANGED <<invoice, price_total, fmt, call, file>>

\* lines 815-824
ItemsTable ==
    /\ pc = "items"
    /\ LET r == pdf_draw_items(invoice.items, invoice.currency, price_total,
                               right_half_max, <<left_half, y>>)
       IN IF r.underflow
          THEN /\ pc' = "panicked"
               /\ UNCHANGED <<y, out>>
          ELSE /\ out' = out \o r.draws
               /\ y' = y - r.ret[2]
               /\ pc' = "qr"
    /\ UNCHANGED <<invoice, price_total, fmt, call, file>>

Mut_spayd_amount_from_first_item(inv, total) ==
    << <<"ACC", inv.iban.electronic>>,
       <<"AM", DecToString(IF inv.items = <<>> THEN total
                           ELSE price(inv.items[1]))>>,
       <<"CC", CurrencyCode(inv.currency)>>,
       <<"X-VS", inv.payment_method.text>> >>

\* lines 827-832: the fields handed to Spayd::new_v1_0
SpaydFields(inv, total) ==
    << <<"ACC", inv.iban.electronic>>,
       <<"AM", DecToString(total)>>,
       <<"CC", CurrencyCode(inv.currency)>>,
       <<"X-VS", inv.payment_method.text>> >>

\* lines 826-848
QrNote ==
    /\ pc = "qr"
    /\ out' = IF invoice.payment_method.tag = "BankTransfer"
              THEN out
                   \o <<[kind |-> "qr",
                         payload |-> SpaydFields(invoice, price_total),
                         x |-> left_half, y |-> y]>>
                   \o (IF invoice.note # <<>>
                       THEN <<[kind |-> "note", text |-> invoice.note[1],
                               x |-> left_half, y |-> entity_base]>>
                       ELSE <<>>)
              ELSE out
    /\ pc' = "done"
    /\ UNCHANGED <<invoice, y, price_total, fmt, call, file>>

(***************************************************************************)
(* main.rs 57-60: the document is saved to "example.pdf"                   *)
(***************************************************************************)
\* File::create("example.pdf").unwrap(): the file is created, or truncated,
\* at the output path itself, or the call fails and unwrap panics
CreateFile ==
    /\ pc = "done"
    /\ \/ /\ file' = [state |-> "partial", written |-> 0]
          /\ pc' = "saving"
       \/ /\ pc' = "io_error"
          /\ UNCHANGED file
    /\ UNCHANGED <<invoice, y, price_total, out, fmt, call>>

\* pdf.save(&mut writer).unwrap(): the document reaches the file in
\* MaxChunks writes, each of which may fail; unwrap panics on the error and
\* nothing removes what was written
SaveChunk ==
    /\ pc = "saving"
    /\ \/ /\ file' = [state |-> IF file.written + 1 = MaxChunks
                                 THEN "complete" ELSE "partial",
                       written |-> file.written + 1]
          /\ pc' = IF file.written + 1 = MaxChunks THEN "saved" ELSE "saving"
       \/ /\ pc' = "io_error"
          /\ UNCHANGED file
    /\ UNCHANGED <<invoice, y, price_total, out, fmt, call>>

Next == ComputeTotal \/ Heading \/ EntityInfo \/ PaymentAndDates
        \/ ItemsTable \/ QrNote \/ CreateFile \/ SaveChunk

Spec == Init /\ [][Next]_vars

(***************************************************************************)
(* The money formatter on its own                                          *)
(***************************************************************************)
Mantissas == {0, 1, 5, 15, 25, 995, 12345, 52500, 1234567}

Amounts == {Dec(sign * m, s) : sign \in {1, -1}, m \in Mantissas,
                               s \in 0..MaxScale}

FmtInit ==
    /\ invoice = [items |-> <<>>, payment_method |-> Cash, currency |-> "CZK",
                  note |-> <<>>, iban |-> TheIban, date |-> 2, due_date |-> 3]
    /\ pc = "format"
    /\ y = PageTop
    /\ price_total = DecZero
    /\ out = <<>>
    /\ fmt = NoFmt
    /\ call = NoCall
    /\ file = NoFile

\* create_accounting_from_currency(currency).format_money(amount)
FormatCall ==
    /\ pc = "format"
    /\ \E c \in Currencies, a \in Amounts :
          fmt' = [status |-> "done", currency |-> c, amount |-> a,
                  ac |-> create_accounting_from_currency(c),
                  text |-> format_money(create_accounting_from_currency(c), a)]
    /\ UNCHANGED <<invoice, pc, y, price_total, out, call, file>>

FmtNext == FormatCall

FmtSpec == FmtInit /\ [][FmtNext]_vars

(***************************************************************************)
(* Functions checked on their own: the wrapping of a description           *)
(***************************************************************************)
WordPool == {<<"i">>, <<"a", "b">>, <<"m", "m", "m">>}

\* the words separated by single spaces
RECURSIVE JoinSpace(_)
JoinSpace(ws) ==
    IF ws = <<>> THEN <<>>
    ELSE IF Len(ws) = 1 THEN ws[1]
    ELSE ws[1] \o <<" ">> \o JoinSpace(Tail(ws))

\* the empty description and those of 1..MaxWords words
Descriptions == {JoinSpace(ws) : ws \in SeqsUpTo(WordPool, MaxWords)}

\* width budgets: the widths of the texts of one or two words, and one
\* hundredth of a millimetre more
Budgets ==
    {calculate_text_width(JoinSpace(ws), table_font_size) + k :
        ws \in SeqsUpTo(WordPool, 2) \ {<<>>}, k \in {0, 1}}

UnitInit ==
    /\ invoice = [items |-> <<>>, payment_method |-> Cash, currency |-> "CZK",
                  note |-> <<>>, iban |-> TheIban, date |-> 2, due_date |-> 3]
    /\ pc = "unit"
    /\ y = PageTop
    /\ price_total = DecZero
    /\ out = <<>>
    /\ fmt = NoFmt
    /\ call = NoCall
    /\ file = NoFile

\* invoice.rs 563-586 with a description and a threshold of its own
WrapCall ==
    /\ pc = "unit"
    /\ \E d \in Descriptions, t \in Budgets :
          call' = [fn |-> "wrap", description |-> d, threshold |-> t,
                   result |-> DrawDescription(d, t)]
    /\ pc' = "returned"
    /\ UNCHANGED <<invoice, y, price_total, out, fmt, file>>

(***************************************************************************)
(* Address (address.rs) and the address built from a registry response     *)
(* (ares.rs)                                                               *)
(***************************************************************************)
\* bytes of a character in UTF-8: str::len, String::insert and the chunk
\* lengths count bytes
ByteLen(c) == IF c = "€" THEN 3 ELSE 1

RECURSIVE StrLen(_)
StrLen(t) == IF t = <<>> THEN 0 ELSE ByteLen(Head(t)) + StrLen(Tail(t))

\* str::splitn(n, c): at most n pieces, the last one the rest of the text
RECURSIVE SplitN(_, _, _)
SplitN(n, t, c) ==
    IF n <= 1 \/ \A i \in 1..Len(t) : t[i] # c THEN <<t>>
    ELSE <<SubSeq(t, 1, (CHOOSE k \in 1..Len(t) :
                            t[k] = c /\ \A j \in 1..(k - 1) : t[j] # c) - 1)>>
         \o SplitN(n - 1,
                   SubSeq(t, (CHOOSE k \in 1..Len(t) :
                                 t[k] = c /\ \A j \in 1..(k - 1) : t[j] # c) + 1,
                          Len(t)),
                   c)

\* [&str]::join(sep)
RECURSIVE JoinWith(_, _)
JoinWith(ws, sep) ==
    IF ws = <<>> THEN <<>>
    ELSE IF Len(ws) = 1 THEN ws[1]
    ELSE ws[1] \o sep \o JoinWith(Tail(ws), sep)

\* Address::new
Address_new(city, street, postal_code, house_number, orientation_number) ==
    [city |-> city, street |-> street, postal_code |-> postal_code,
     house_number |-> house_number, orientation_number |-> orientation_number]

\* format!("{:05}", text): Display of a String pads with the fill character,
\* a space, on the right up to 5 characters; the flag 0 acts on numbers only
PadTo5(text) ==
    IF Len(text) >= 5 THEN text
    ELSE text \o [i \in 1..(5 - Len(text)) |-> " "]

\* the characters of t that end at byte offset b, if b is a char boundary
CharsUpTo(t, b) == {k \in 0..Len(t) : StrLen(SubSeq(t, 1, k)) = b}

Mut_get_second_line_after_two(address) ==
    IF CharsUpTo(PadTo5(address.postal_code), 2) = {}
    THEN [status |-> "panicked"]
    ELSE [status |-> "ok",
          text |-> SubSeq(PadTo5(address.postal_code), 1,
                          CHOOSE k \in CharsUpTo(PadTo5(address.postal_code), 2) :
                              TRUE)
                   \o <<" ">>
                   \o SubSeq(PadTo5(address.postal_code),
                             (CHOOSE k \in CharsUpTo(PadTo5(address.postal_code),
                                                     2) : TRUE) + 1,
                             Len(PadTo5(address.postal_code)))
                   \o <<" ">> \o address.city]

\* Address::get_second_line; String::insert(3, ' ') panics when byte 3 is
\* not a char boundary
get_second_line(address) ==
    IF CharsUpTo(PadTo5(address.postal_code), 3) = {}
    THEN [status |-> "panicked"]
    ELSE [status |-> "ok",
          text |-> SubSeq(PadTo5(address.postal_code), 1,
                          CHOOSE k \in CharsUpTo(PadTo5(address.postal_code), 3) :
                              TRUE)
                   \o <<" ">>
                   \o SubSeq(PadTo5(address.postal_code),
                             (CHOOSE k \in CharsUpTo(PadTo5(address.postal_code),
                                                     3) : TRUE) + 1,
                             Len(PadTo5(address.postal_code)))
                   \o <<" ">> \o address.city]

\* fetch_from_ares, the Address it builds from the `sidlo` of the response;
\* an Option is <<x>> or <<>>
AresAddress(office) ==
    Address_new(IF office.city_part # <<>>
                THEN JoinWith(SplitN(Len(office.city_part[1]) + 1,
                                     office.city_part[1], "-"),
                              <<" ", "-", " ">>)
                ELSE office.municipality_name,
                IF office.street # <<>> THEN office.street[1]
                ELSE office.municipality_part_name,
                NatStr(office.postal_code),
                office.house_number,
                office.orientation_number)

Praha  == <<"P", "r", "a", "h", "a">>
Brno   == <<"B", "r", "n", "o">>
Husova == <<"H", "u", "s", "o", "v", "a">>

\* postal codes handed to Address::new: any String
PostalCodeTexts ==
    { <<"1", "2", "0", "0", "0">>, <<"6", "0", "2", "0", "0">>,
      <<"0", "0", "1", "0", "0">>, <<"1", "2", "3", "4">>, <<"1", "2">>,
      <<>>, <<"1", "2", "3", "4", "5", "6">>, <<"1", "2", "0", " ", "0", "0">>,
      <<"1", "€", "2", "3", "4">>, <<"€", "1", "2", "3", "4">> }

Addresses ==
    {Address_new(c, Husova, p, h, o) :
        c \in {Praha, Brno}, p \in PostalCodeTexts, h \in {123},
        o \in {<<>>, <<4>>}}

\* the `psc` of a registry response: any u32
AresPostalCodes == {0, 7, 760, 1234, 11000, 12000, 60200, 79999, 123456}

AresOffices ==
    [city_part : {<<>>, << <<"P", "r", "a", "h", "a", "-", "Z", "l">> >>},
     municipality_name : {Praha, Brno},
     street : {<<>>, <<Husova>>},
     municipality_part_name : {Brno},
     postal_code : AresPostalCodes,
     house_number : {123},
     orientation_number : {<<>>}]

\* Address::new(..).get_second_line()
SecondLineCall ==
    /\ pc = "unit"
    /\ \E a \in Addresses :
          call' = [fn |-> "second_line", origin |-> "new", address |-> a,
                   result |-> get_second_line(a)]
    /\ pc' = "returned"
    /\ UNCHANGED <<invoice, y, price_total, out, fmt, file>>

\* the second line of the address fetch_from_ares builds
AresSecondLineCall ==
    /\ pc = "unit"
    /\ \E o \in AresOffices :
          call' = [fn |-> "second_line", origin |-> "ares",
                   address |-> AresAddress(o),
                   result |-> get_second_line(AresAddress(o))]
    /\ pc' = "returned"
    /\ UNCHANGED <<invoice, y, price_total, out, fmt, file>>

(***************************************************************************)
(* RegistrationNumber (registration_number.rs), Tin and Ein (entity/us.rs) *)
(***************************************************************************)
\* char::to_digit(10) as an Option: <<d>> or <<>>
to_digit(c) ==
    IF \E d \in 0..9 : Digits[d + 1] = c
    THEN <<CHOOSE d \in 0..9 : Digits[d + 1] = c>> ELSE <<>>

\* char::is_ascii_digit
is_ascii_digit(c) == to_digit(c) # <<>>

Reverse(t) == [i \in 1..Len(t) |-> t[Len(t) + 1 - i]]

RECURSIVE Mut_ControlSum_weights_from_one(_, _)
Mut_ControlSum_weights_from_one(chars, i) ==
    IF chars = <<>> THEN <<0>>
    ELSE IF to_digit(Head(chars)) = <<>> THEN <<>>
    ELSE IF Mut_ControlSum_weights_from_one(Tail(chars), i + 1) = <<>> THEN <<>>
    ELSE <<to_digit(Head(chars))[1] * (i + 1)
           + Mut_ControlSum_weights_from_one(Tail(chars), i + 1)[1]>>

\* the loop of RegistrationNumber::valid over chars().rev().skip(1)
\* .enumerate(), from index i: <<calculated_control>>, or <<>> when a
\* character is no digit (the `?`)
RECURSIVE ControlSum(_, _)
ControlSum(chars, i) ==
    IF chars = <<>> THEN <<0>>
    ELSE IF to_digit(Head(chars)) = <<>> THEN <<>>
    ELSE IF ControlSum(Tail(chars), i + 1) = <<>> THEN <<>>
    ELSE <<to_digit(Head(chars))[1] * (i + 2)
           + ControlSum(Tail(chars), i + 1)[1]>>

\* RegistrationNumber::valid(number).is_some()
valid(number) ==
    /\ number # <<>>
    /\ ControlSum(Tail(Reverse(number)), 0) # <<>>
    /\ to_digit(number[Len(number)]) # <<>>
    /\ (11 - (ControlSum(Tail(Reverse(number)), 0)[1] % 11)) % 10
         = to_digit(number[Len(number)])[1]

\* <RegistrationNumber as FromStr>::from_str
RegistrationNumber_from_str(number) ==
    IF StrLen(number) # 8 THEN [status |-> "InvalidNumber"]
    ELSE IF valid(number) THEN [status |-> "ok", value |-> number]
    ELSE [status |-> "InvalidNumber"]

\* RegistrationNumber::get and Display: the string held
RegistrationNumber_get(r) == r.value

\* the `all` of from_str over the enumerated chunks: chunk idx has
\* lens[idx] bytes and only ASCII digits
ChunksPass(chunks, lens) ==
    \A idx \in 1..Len(chunks) :
        /\ StrLen(chunks[idx]) = lens[idx]
        /\ \A j \in 1..Len(chunks[idx]) : is_ascii_digit(chunks[idx][j])

Mut_Tin_from_str_any_length(s) ==
    IF ~ChunksPass(SplitN(3, s, "-"), <<3, 2, 4>>) THEN [status |-> "Invalid"]
    ELSE [status |-> "ok", value |-> s]

\* <Tin as FromStr>::from_str
Tin_from_str(s) ==
    IF StrLen(s) # 11 THEN [status |-> "Invalid"]
    ELSE IF ~ChunksPass(SplitN(3, s, "-"), <<3, 2, 4>>)
    THEN [status |-> "Invalid"]
    ELSE [status |-> "ok", value |-> s]

Mut_Ein_from_str_any_length(s) ==
    IF ~ChunksPass(SplitN(2, s, "-"), <<2, 7>>) THEN [status |-> "Invalid"]
    ELSE [status |-> "ok", value |-> s]

\* <Ein as FromStr>::from_str
Ein_from_str(s) ==
    IF StrLen(s) # 10 THEN [status |-> "Invalid"]
    ELSE IF ~ChunksPass(SplitN(2, s, "-"), <<2, 7>>)
    THEN [status |-> "Invalid"]
    ELSE [status |-> "ok", value |-> s]

\* the characters tried in the input strings
EditAlphabet == {Digits[i] : i \in 1..10} \cup {"-", "A", " ", "€"}

\* a text and every text one edit away from it: a character replaced,
\* removed or inserted, two neighbours swapped, and every prefix
Edits(t) ==
    {t}
    \cup {[t EXCEPT ![i] = c] : i \in 1..Len(t), c \in EditAlphabet}
    \cup {SubSeq(t, 1, i - 1) \o SubSeq(t, i + 1, Len(t)) : i \in 1..Len(t)}
    \cup {SubSeq(t, 1, i - 1) \o <<c>> \o SubSeq(t, i, Len(t)) :
             i \in 1..(Len(t) + 1), c \in EditAlphabet}
    \cup {[t EXCEPT ![i] = t[i + 1], ![i + 1] = t[i]] : i \in 1..(Len(t) - 1)}
    \cup {SubSeq(t, 1, i) : i \in 0..Len(t)}

RegistrationInputs ==
    Edits(<<"2", "7", "0", "8", "2", "4", "4", "0">>) \cup Edits(<<"4", "5", "2", "7", "4", "6", "4", "9">>) \cup Edits(<<"0", "0", "0", "0", "0", "0", "0", "1">>)
    \cup {<<"C", "Z", "0", "0", "0", "0", "0", "0", "0", "0">>, <<"€", "1", "2", "3", "4", "5">>}

TinInputs ==
    Edits(<<"1", "2", "3", "-", "4", "5", "-", "6", "7", "8", "9">>)
    \cup {<<"1", "2", "3", "-", "4", "5", "-", "6", "7", "8">>, <<"1", "2", "3", "4", "-", "5", "6", "-", "7", "8", "9", "0">>, <<"1", "2", "3", "-", "4", "5", "-", "6", "7", "8", "A">>,
          <<"1", "2", "3", "4", "5", "6", "7", "8", "9", "0">>, <<"1", "2", "3", "-", "-", "4", "5", "-", "6", "7", "8", "9">>,
          <<"€", "-", "4", "5", "-", "6", "7", "8", "9">>}

EinInputs ==
    Edits(<<"1", "2", "-", "3", "4", "5", "6", "7", "8", "9">>)
    \cup {<<"1", "2", "-", "-", "4", "-", "6", "7", "8">>, <<"1", "2", "3", "-", "4", "5", "6", "7", "8", "9">>, <<"1", "2", "-", "3", "4", "5", "6", "7", "8", "A">>,
          <<"1", "2", "3", "4", "5", "6", "7", "8", "9">>, <<"1", "2", "3", "4", "5", "6", "7", "8", "-">>, <<"1", "2", "-", "-", "3", "4", "5", "6", "7", "8", "9">>,
          <<"1", "2", "-", "3", "4", "5", "6", "€">>}

\* "<text>".parse::<RegistrationNumber>()
RegistrationNumberCall ==
    /\ pc = "unit"
    /\ \E s \in RegistrationInputs :
          call' = [fn |-> "registration_number", input |-> s,
                   result |-> RegistrationNumber_from_str(s)]
    /\ pc' = "returned"
    /\ UNCHANGED <<invoice, y, price_total, out, fmt, file>>

\* "<text>".parse::<Tin>()
TinCall ==
    /\ pc = "unit"
    /\ \E s \in TinInputs :
          call' = [fn |-> "tin", input |-> s, result |-> Tin_from_str(s)]
    /\ pc' = "returned"
    /\ UNCHANGED <<invoice, y, price_total, out, fmt, file>>

\* "<text>".parse::<Ein>()
EinCall ==
    /\ pc = "unit"
    /\ \E s \in EinInputs :
          call' = [fn |-> "ein", input |-> s, result |-> Ein_from_str(s)]
    /\ pc' = "returned"
    /\ UNCHANGED <<invoice, y, price_total, out, fmt, file>>

\* the texts measured on their own: one to MaxWords words separated by
\* single spaces, a column header and a date
MeasuredTexts == (Descriptions \ {<<>>}) \cup {CenaZaMj, FormatDate(2)}

\* the font sizes the conversion measures at
FontSizes == {table_font_size, text_font_size, total_font_size}

\* calculate_text_width(text, pdf, font_size)
TextWidthCall ==
    /\ pc = "unit"
    /\ \E t \in MeasuredTexts, size \in FontSizes :
          call' = [fn |-> "text_width", text |-> t, size |-> size,
                   result |-> calculate_text_width(t, size)]
    /\ pc' = "returned"
    /\ UNCHANGED <<invoice, y, price_total, out, fmt, file>>

\* #[derive(Deserialize)] on the newtype RegistrationNumber(String): the
\* string read is wrapped as it is
RegistrationNumber_deserialize(text) == [status |-> "ok", value |-> text]

\* a RegistrationNumber read from serialised data, as the identifier of a
\* deserialised entity is
RegistrationNumberDeserializeCall ==
    /\ pc = "unit"
    /\ \E t \in RegistrationInputs :
          call' = [fn |-> "registration_number_de", input |-> t,
                   result |-> RegistrationNumber_deserialize(t)]
    /\ pc' = "returned"
    /\ UNCHANGED <<invoice, y, price_total, out, fmt, file>>

(***************************************************************************)
(* impl FromStr for PaymentMethod (payment_method.rs)                      *)
(***************************************************************************)
\* str::starts_with
starts_with(value, prefix) ==
    /\ Len(value) >= Len(prefix)
    /\ SubSeq(value, 1, Len(prefix)) = prefix

\* value.split(' ').skip(1).collect::<Vec<&str>>().join(" ")
SkipFirstPiece(value) == JoinWith(Tail(SplitSpace(value)), <<" ">>)

UnknownPaymentMethod ==
    <<"U", "n", "k", "n", "o", "w", "n", " ", "p", "a", "y", "m", "e", "n",
      "t", " ", "m", "e", "t", "h", "o", "d", ":", " ">>

Mut_PaymentMethod_from_str_cash_prefix(value) ==
    IF starts_with(value, <<"c", "a", "s", "h">>)
    THEN [status |-> "ok", value |-> Cash]
    ELSE IF starts_with(value, <<"c", "a", "r", "d">>)
    THEN [status |-> "ok", value |-> Card(SkipFirstPiece(value))]
    ELSE IF starts_with(value, <<"b", "a", "n", "k">>)
    THEN [status |-> "ok", value |-> BankTransfer(SkipFirstPiece(value))]
    ELSE [status |-> "err", message |-> UnknownPaymentMethod \o value]

\* PaymentMethod::from_str
PaymentMethod_from_str(value) ==
    IF value = <<"c", "a", "s", "h">>
    THEN [status |-> "ok", value |-> Cash]
    ELSE IF starts_with(value, <<"c", "a", "r", "d">>)
    THEN [status |-> "ok", value |-> Card(SkipFirstPiece(value))]
    ELSE IF starts_with(value, <<"b", "a", "n", "k">>)
    THEN [status |-> "ok", value |-> BankTransfer(SkipFirstPiece(value))]
    ELSE [status |-> "err", message |-> UnknownPaymentMethod \o value]

PaymentMethodInputs ==
    Edits(<<"c", "a", "s", "h">>)
    \cup Edits(<<"c", "a", "r", "d", " ", "1", "2", " ", "3">>)
    \cup Edits(<<"b", "a", "n", "k", " ", "2", "0", " ", "4">>)
    \cup {<<"C", "a", "s", "h">>, <<"c", "a", "r", "d", "s">>,
          <<"b", "a", "n", "k", "e", "r", " ", "7">>,
          <<"c", "a", "s"," ", "h">>, <<"x", " ", "c", "a", "r", "d">>}

\* "<text>".parse::<PaymentMethod>()
PaymentMethodCall ==
    /\ pc = "unit"
    /\ \E t \in PaymentMethodInputs :
          call' = [fn |-> "payment_method", input |-> t,
                   result |-> PaymentMethod_from_str(t)]
    /\ pc' = "returned"
    /\ UNCHANGED <<invoice, y, price_total, out, fmt, file>>

UnitNext == WrapCall \/ SecondLineCall \/ AresSecondLineCall
            \/ RegistrationNumberCall \/ TinCall \/ EinCall
            \/ TextWidthCall \/ RegistrationNumberDeserializeCall
            \/ PaymentMethodCall

UnitSpec == UnitInit /\ [][UnitNext]_vars

(***************************************************************************)
(* Properties                                                              *)
(***************************************************************************)
Rows == {k \in DOMAIN out : out[k].kind = "row"}

ItemOf(k) == invoice.items[out[k].index]

\* |60 * amount - n * price_per_unit| at the scale of the amount, n being the
\* multiplicator in sixtieths
HoursError(k) ==
    Abs(60 * out[k].amount.m
        - hour_multiplicator(ItemOf(k).item_type) * ItemOf(k).price_per_unit.m
          * Pow10(out[k].amount.s - ItemOf(k).price_per_unit.s))

RECURSIVE TotalScale(_, _)
TotalScale(items, s) ==
    IF items = <<>> THEN s
    ELSE TotalScale(Tail(items), Max(s, price(Head(items)).s))

\* the sum of the item prices as an integer number of 10^(-s)
RECURSIVE SumAtScale(_, _)
SumAtScale(items, s) ==
    IF items = <<>> THEN 0
    ELSE Rescale(price(Head(items)), s) + SumAtScale(Tail(items), s)

\* the decimal sum of price() over the items, whatever their order
DecimalSum(items) ==
    Dec(SumAtScale(items, TotalScale(items, DecZero.s)),
        TotalScale(items, DecZero.s))

Permuted(items, p) == [i \in 1..Len(items) |-> items[p[i]]]

\* C2: once computed, the grand total is the decimal sum of price() over the
\* items, every permutation of the item list folds to the same total, and
\* the total of an empty list is zero.
C2_TotalIsOrderFreeSum ==
    pc # "start" =>
        /\ price_total = DecimalSum(invoice.items)
        /\ \A p \in Permutations(1..Len(invoice.items)) :
              FoldPrices(DecZero, Permuted(invoice.items, p)) = price_total
        /\ invoice.items = <<>> => price_total.m = 0

\* a total of two items with different prices has been computed
C2_Witness ==
    /\ pc # "start"
    /\ Len(invoice.items) = 2
    /\ ~DecEq(price(invoice.items[1]), price(invoice.items[2]))
    /\ price_total.m # 0

Degenerate ==
    \/ invoice.items = <<>>
    \/ \E i \in DOMAIN invoice.items : invoice.items[i].description = <<>>

\* C3: a conversion of an invoice without items, or with an item whose
\* description is empty, never panics, and with no items it ends with no
\* row drawn and a zero grand total.
C3_DegenerateInputRenders ==
    Degenerate =>
        /\ pc # "panicked"
        /\ (pc = "done" /\ invoice.items = <<>>) =>
              /\ Rows = {}
              /\ price_total.m = 0

\* C4: the conversion never panics, whatever the payment method.
C4_LayoutIsTotal == pc # "panicked"

Emitted(kind) == {k \in DOMAIN out : out[k].kind = kind}

\* C5: the QR image and the note are on the layer only if the payment method
\* is BankTransfer, and only after the grand total, the last thing the
\* items-table stage draws.
C5_QrAndNoteOnlyForBankTransfer ==
    \A k \in Emitted("qr") \cup Emitted("note") :
        /\ invoice.payment_method.tag = "BankTransfer"
        /\ \E j \in Emitted("total") : j < k

\* a finished conversion that drew the QR image and the note
C5_Witness ==
    /\ pc = "done"
    /\ Emitted("qr") # {}
    /\ Emitted("note") # {}

\* C6: the QR payload carries exactly ACC = the IBAN in electronic form,
\* AM = the grand total printed by Decimal::to_string, the amount whose
\* formatted form is the displayed total, CC = the currency code and
\* X-VS = the variable symbol.
C6_SpaydFields ==
    \A k \in Emitted("qr") :
        /\ out[k].payload =
              << <<"ACC", invoice.iban.electronic>>,
                 <<"AM", DecToString(DecimalSum(invoice.items))>>,
                 <<"CC", CurrencyCode(invoice.currency)>>,
                 <<"X-VS", invoice.payment_method.text>> >>
        /\ \E t \in Emitted("total") :
              out[t].text =
                 format_money(create_accounting_from_currency(invoice.currency),
                              DecimalSum(invoice.items))

\* a QR payload for an invoice of two differently priced items
C6_Witness ==
    /\ Emitted("qr") # {}
    /\ Len(invoice.items) = 2
    /\ ~DecEq(price(invoice.items[1]), DecimalSum(invoice.items))

Text525Kc == <<"5", "2", "5", ",", "0", "0", " ", "K", "c">>
Text525   == <<"5", "2", "5", ".", "0", "0">>

\* C7: a finished conversion of a CZK invoice whose single item is
\* Hours(1, 30) at a price per unit of 350 displays "525,00 Kč" and carries
\* AM = "525.00".
C7_EndToEnd525 ==
    ( /\ pc = "done"
      /\ invoice.currency = "CZK"
      /\ Len(invoice.items) = 1
      /\ invoice.items[1].item_type = Hours(1, 30)
      /\ DecEq(invoice.items[1].price_per_unit, Dec(350, 0)) )
    => /\ \A t \in Emitted("total") : out[t].text = Text525Kc
       /\ \A k \in Emitted("qr") : out[k].payload[2] = <<"AM", Text525>>

Formatted == fmt.status = "done"

IsDigit(c) == \E i \in 1..Len(Digits) : Digits[i] = c

\* C8: for EUR and USD the symbol comes first with no space before the
\* value; EUR has ',' as decimal and '.' as thousand separator, USD the
\* reverse; 1234.5 is "€1.234,50" in EUR and "$1,234.50" in USD.
C8_EurUsdSymbolFirst ==
    (Formatted /\ fmt.currency \in {"EUR", "USD"}) =>
        /\ fmt.ac.format_positive = <<"{s}", "{v}">>
        /\ fmt.ac.decimal = (IF fmt.currency = "EUR" THEN <<",">> ELSE <<".">>)
        /\ fmt.ac.thousand = (IF fmt.currency = "EUR" THEN <<".">> ELSE <<",">>)
        /\ fmt.amount.m >= 0 =>
              /\ SubSeq(fmt.text, 1, 1) = CurrencySymbol(fmt.currency)
              /\ IsDigit(fmt.text[2])
        /\ fmt.amount = Dec(12345, 1) =>
              fmt.text = (IF fmt.currency = "EUR"
                          THEN <<"€", "1", ".", "2", "3", "4", ",", "5", "0">>
                          ELSE <<"$", "1", ",", "2", "3", "4", ".", "5", "0">>)

\* 1234.5 has been formatted in EUR
C8_Witness ==
    /\ Formatted
    /\ fmt.currency = "EUR"
    /\ fmt.amount = Dec(12345, 1)

\* the decimal places the claim gives a currency
ExpectedPlaces(c) ==
    IF CurrencyExponent(c) = <<>> THEN 2 ELSE CurrencyExponent(c)[1]

\* the text ends with a space and the symbol, preceded, when the currency
\* has decimal places, by ',' and that many digits
EndsWithDecimalsAndSymbol(text, places, symbol) ==
    /\ Len(text) > Len(symbol) + 1 + places
    /\ SubSeq(text, Len(text) - Len(symbol) + 1, Len(text)) = symbol
    /\ text[Len(text) - Len(symbol)] = " "
    /\ \A i \in 1..places : IsDigit(text[Len(text) - Len(symbol) - i])
    /\ IF places > 0
       THEN text[Len(text) - Len(symbol) - 1 - places] = ","
       ELSE IsDigit(text[Len(text) - Len(symbol) - 1])

\* C9: for a currency other than EUR and USD the formatter is the default
\* rule: value, one space, the currency's symbol; ',' as decimal and ' ' as
\* thousand separator; as many decimal places as the currency's exponent,
\* 2 when it has none.  The formatter is built for every currency.
C9_DefaultRule ==
    (Formatted /\ fmt.currency \notin {"EUR", "USD"}) =>
        /\ \A c \in Currencies :
              create_accounting_from_currency(c).precision \in Nat
        /\ fmt.ac.symbol = CurrencySymbol(fmt.currency)
        /\ fmt.ac.precision = ExpectedPlaces(fmt.currency)
        /\ fmt.ac.format_positive = <<"{v}", " ", "{s}">>
        /\ fmt.ac.decimal = <<",">>
        /\ fmt.ac.thousand = <<" ">>
        /\ fmt.amount.m >= 0 =>
              EndsWithDecimalsAndSymbol(fmt.text, ExpectedPlaces(fmt.currency),
                                        CurrencySymbol(fmt.currency))
        /\ fmt.amount = Dec(1234567, 0) =>
              SubSeq(fmt.text, 1, 9) =
                 <<"1", " ", "2", "3", "4", " ", "5", "6", "7">>

\* an amount above a million has been formatted in a currency that defines
\* no exponent
C9_Witness ==
    /\ Formatted
    /\ fmt.currency = "XAU"
    /\ fmt.amount = Dec(1234567, 0)
    /\ fmt.ac.precision = 2

\* C10: the text of a negative amount is '-' followed by the text of its
\* absolute value; the text of zero comes from the zero template, which is
\* the positive template, and holds no minus sign.
C10_NegativeAndZero ==
    Formatted =>
        /\ fmt.amount.m < 0 =>
              fmt.text = <<"-">>
                 \o format_money(create_accounting_from_currency(fmt.currency),
                                 Dec(-fmt.amount.m, fmt.amount.s))
        /\ fmt.amount.m = 0 =>
              /\ fmt.text = ApplyFormat(fmt.ac.format_zero,
                                        FormatNumber(fmt.amount, fmt.ac.precision,
                                                     fmt.ac.thousand,
                                                     fmt.ac.decimal),
                                        fmt.ac.symbol)
              /\ fmt.ac.format_zero = fmt.ac.format_positive
              /\ \A i \in 1..Len(fmt.text) : fmt.text[i] # "-"

\* a negative amount with more digits than the currency prints has been
\* formatted
C10_Witness ==
    /\ Formatted
    /\ fmt.amount = Dec(-1234567, 3)
    /\ fmt.currency = "CZK"
    /\ fmt.text[1] = "-"

(***************************************************************************)
(* Properties of the wrapping loop (UnitSpec)                              *)
(***************************************************************************)
LineWidth(line) == calculate_text_width(line, table_font_size)

\* the words of a text: its non-empty pieces between spaces
WordsOf(text) == NonEmpty(SplitSpace(text))

\* a line without its last word
WithoutLastWord(line) ==
    JoinSpace(SubSeq(WordsOf(line), 1, Len(WordsOf(line)) - 1))

\* the description of the call was wider than the threshold, so the loop ran
Wrapped ==
    /\ call.fn = "wrap"
    /\ LineWidth(call.description) > call.threshold

\* C11: when a description is wrapped, a line is committed exactly when the
\* accumulated text, the word just appended included, measures at least the
\* budget: every committed line measures at least the budget, the same line
\* without its last word measures less, and what is left after the last
\* word is emitted as a final line, which measures less than the budget.
C11_GreedyFlushOnOverflow ==
    Wrapped =>
        /\ call.result.breaks \in {Len(call.result.lines),
                                   Len(call.result.lines) - 1}
        /\ \A i \in 1..call.result.breaks :
              /\ LineWidth(call.result.lines[i]) >= call.threshold
              /\ LineWidth(WithoutLastWord(call.result.lines[i]))
                    < call.threshold
        /\ Len(call.result.lines) = call.result.breaks + 1 =>
              /\ WordsOf(call.result.lines[Len(call.result.lines)]) # <<>>
              /\ LineWidth(call.result.lines[Len(call.result.lines)])
                    < call.threshold
        /\ WordsOf(call.description)
              [Len(WordsOf(call.description))] =
           WordsOf(call.result.lines[Len(call.result.lines)])
              [Len(WordsOf(call.result.lines[Len(call.result.lines)]))]

\* a wrapped description with a line committed at exactly the budget, a
\* line committed above it and a final line of what was left
C11_Witness ==
    /\ Wrapped
    /\ call.result.breaks = 2
    /\ Len(call.result.lines) = 3
    /\ \E i \in 1..2 : LineWidth(call.result.lines[i]) = call.threshold
    /\ \E i \in 1..2 : LineWidth(call.result.lines[i]) > call.threshold

RECURSIVE Flatten(_)
Flatten(lines) ==
    IF lines = <<>> THEN <<>> ELSE Head(lines) \o Flatten(Tail(lines))

RECURSIVE AllWords(_)
AllWords(lines) ==
    IF lines = <<>> THEN <<>>
    ELSE WordsOf(Head(lines)) \o AllWords(Tail(lines))

AllDigits(t) == \A i \in 1..Len(t) : IsDigit(t[i])

\* C13: for a postal code of five digits d1..d5 and a city c, the second
\* line is "d1d2d3 d4d5 c"; "12000" and "Praha" give "120 00 Praha".
C13_SecondLineOfFiveDigits ==
    ( /\ call.fn = "second_line"
      /\ Len(call.address.postal_code) = 5
      /\ AllDigits(call.address.postal_code) )
    => /\ call.result.status = "ok"
       /\ call.result.text =
             SubSeq(call.address.postal_code, 1, 3) \o <<" ">>
             \o SubSeq(call.address.postal_code, 4, 5) \o <<" ">>
             \o call.address.city
       /\ (call.address.postal_code = <<"1", "2", "0", "0", "0">>
           /\ call.address.city = Praha) =>
             call.result.text = <<"1", "2", "0", " ", "0", "0", " ",
                                  "P", "r", "a", "h", "a">>

\* the second line of "12000", "Praha" has been computed
C13_Witness ==
    /\ call.fn = "second_line"
    /\ call.address.postal_code = <<"1", "2", "0", "0", "0">>
    /\ call.address.city = Praha
    /\ call.result.status = "ok"

\* C14: for every Address, built directly or from a registry response, the
\* second line is five digits with one space after the third, one space
\* and the city.
C14_PostalCodeFixedWidth ==
    call.fn = "second_line" =>
        /\ call.result.status = "ok"
        /\ Len(call.result.text) = 7 + Len(call.address.city)
        /\ AllDigits(SubSeq(call.result.text, 1, 3))
        /\ call.result.text[4] = " "
        /\ AllDigits(SubSeq(call.result.text, 5, 6))
        /\ call.result.text[7] = " "
        /\ SubSeq(call.result.text, 8, Len(call.result.text))
              = call.address.city

(***************************************************************************)
(* Properties of the parsers (UnitSpec)                                    *)
(***************************************************************************)
\* the digit a character stands for
DigitOf(c) == CHOOSE d \in 0..9 : Digits[d + 1] = c

\* eight decimal digits, the last the check digit of the first seven
IsRegistrationNumber(t) ==
    /\ Len(t) = 8
    /\ AllDigits(t)
    /\ DigitOf(t[8]) =
          (11 - ((8 * DigitOf(t[1]) + 7 * DigitOf(t[2]) + 6 * DigitOf(t[3])
                  + 5 * DigitOf(t[4]) + 4 * DigitOf(t[5]) + 3 * DigitOf(t[6])
                  + 2 * DigitOf(t[7])) % 11)) % 10

\* C15: parsing a RegistrationNumber succeeds exactly when the string is
\* eight digits whose last is (11 - (8 d1 + ... + 2 d7) mod 11) mod 10, and
\* fails with InvalidNumber otherwise; on success get() gives the input
\* back, and "27082440" parses.
C15_RegistrationNumberParse ==
    call.fn = "registration_number" =>
        /\ call.result.status = "ok" <=> IsRegistrationNumber(call.input)
        /\ call.result.status \in {"ok", "InvalidNumber"}
        /\ call.result.status = "ok" =>
              RegistrationNumber_get(call.result) = call.input
        /\ call.input = <<"2", "7", "0", "8", "2", "4", "4", "0">> =>
              call.result.status = "ok"

\* "27082440" has been parsed and read back
C15_Witness ==
    /\ call.fn = "registration_number"
    /\ call.input = <<"2", "7", "0", "8", "2", "4", "4", "0">>
    /\ call.result.status = "ok"
    /\ RegistrationNumber_get(call.result) = call.input

\* digits everywhere but at the places of `dashes`, dashes there
HasForm(t, length, dashes) ==
    /\ Len(t) = length
    /\ \A i \in 1..Len(t) :
          IF i \in dashes THEN t[i] = "-" ELSE IsDigit(t[i])

\* C16: Tin::from_str accepts exactly the strings DDD-DD-DDDD and returns
\* Invalid for every other string; on success get() gives the input back.
C16_TinParse ==
    call.fn = "tin" =>
        /\ call.result.status = "ok" <=> HasForm(call.input, 11, {4, 7})
        /\ call.result.status \in {"ok", "Invalid"}
        /\ call.result.status = "ok" => call.result.value = call.input

\* "123-45-6789" has been accepted
C16_Witness ==
    /\ call.fn = "tin"
    /\ call.input = <<"1", "2", "3", "-", "4", "5", "-", "6", "7", "8", "9">>
    /\ call.result.status = "ok"

\* C17: Ein::from_str accepts exactly the strings DD-DDDDDDD and returns
\* Invalid for every other string; on success get() gives the input back.
C17_EinParse ==
    call.fn = "ein" =>
        /\ call.result.status = "ok" <=> HasForm(call.input, 10, {3})
        /\ call.result.status \in {"ok", "Invalid"}
        /\ call.result.status = "ok" => call.result.value = call.input

\* "12-3456789" has been accepted
C17_Witness ==
    /\ call.fn = "ein"
    /\ call.input = <<"1", "2", "-", "3", "4", "5", "6", "7", "8", "9">>
    /\ call.result.status = "ok"

(***************************************************************************)
(* Properties of the Invoice, the saved file and the cursor (Spec)         *)
(***************************************************************************)
\* C18: the due date of every Invoice is not before its issue date.
C18_DueDateNotBeforeIssueDate == invoice.due_date >= invoice.date

\* C19: when saving has failed after the writer was opened, the output
\* path holds no partially written file.
C19_NoPartialFileAtFinalPath ==
    pc = "io_error" => file.state # "partial"

\* the stages drawn from the cursor
StageDraws ==
    {k \in DOMAIN out :
        out[k].kind \in {"heading", "entity", "payment", "dates", "total"}}

\* C20: the cursor never rises above the place a stage was drawn from;
\* after the items-table stage it is the y coordinate of the bottom of the
\* table, where the grand total is drawn, and the QR image is positioned
\* from that value.
C20_CursorIsBottomOfTable ==
    /\ \A k \in StageDraws : y <= out[k].y
    /\ pc \in {"qr", "done"} =>
          \A t \in Emitted("total") : y = out[t].y
    /\ \A q \in Emitted("qr") :
          \A t \in Emitted("total") : out[q].y = out[t].y

(***************************************************************************)
(* Properties of the items table (Spec)                                    *)
(***************************************************************************)
\* the y_offset after row k, as a coordinate: where the next row is drawn,
\* or 2.4 line heights above the grand total after the last row
AfterRow(k) ==
    IF out[k + 1].kind = "row" THEN out[k + 1].y
    ELSE out[k + 1].y + (line_height * 12) \div 5

\* C21: a row whose description is drawn on k lines advances the table by
\* 1.25 + (k - 1) line heights, also when the last word of the description
\* commits its line.
C21_RowAdvance ==
    \A k \in Rows :
        out[k].y - AfterRow(k) =
            (line_height * 5) \div 4 + (Len(out[k].lines) - 1) * line_height

\* C22: the width reserved for the line-total column is the largest measured
\* width of any item's formatted line total, so no row's formatted line
\* total is wider than the reserved width, whatever the prices.
C22_LineTotalFitsReservedWidth ==
    \A h \in Emitted("header") :
        \A k \in Rows : out[k].total_w <= out[h].max_price_width

\* C23: the measured width of the text drawn in the left column of every
\* row, Hours, Quantity or Other, is at most the count offset.
C23_LeftTextFitsCountOffset ==
    \A h \in Emitted("header") :
        \A k \in Rows :
            calculate_text_width(out[k].left, table_font_size)
                <= out[h].count_offset

\* the right edge of a run: its x plus its measured width at its own size
RightEdge(run) == run.x + calculate_text_width(run.text, run.size)

\* the right boundary handed to the stage that drew out[k]
BoundaryOf(k) ==
    IF out[k].kind = "entity" /\ out[k].role = "Contractor" THEN left_half_max
    ELSE IF out[k].kind = "payment" THEN left_half_max
    ELSE right_half_max

\* C24: every right-aligned run ends at its right boundary: the identifier
\* and VAT number of each entity, the bank account, variable symbol and
\* payment type, both dates, the column headers, each row's per-unit price
\* and line total, and the grand total, each measured at its own font size;
\* "CENA ZA MJ" and every per-unit price share one right boundary; "CELKEM",
\* every line total and the grand total end at the page's right boundary.
C24_RightAlignedRuns ==
    /\ \A k \in Emitted("entity") :
          /\ RightEdge(out[k].identifier) = BoundaryOf(k)
          /\ \A i \in DOMAIN out[k].vat :
                RightEdge(out[k].vat[i]) = BoundaryOf(k)
    /\ \A k \in Emitted("payment") :
          /\ RightEdge(out[k].bank_account) = BoundaryOf(k)
          /\ RightEdge(out[k].var_symbol) = BoundaryOf(k)
          /\ RightEdge(out[k].type) = BoundaryOf(k)
    /\ \A k \in Emitted("dates") :
          /\ RightEdge(out[k].invoice_date_run) = BoundaryOf(k)
          /\ RightEdge(out[k].due_date_run) = BoundaryOf(k)
    /\ \A h \in Emitted("header") :
          /\ out[h].celkem_x + calculate_text_width(Celkem, out[h].size)
                = right_half_max
          /\ \A k \in Rows :
                out[k].unit_x
                  + calculate_text_width(out[k].unit_price, out[k].size)
                = out[h].cena_x + calculate_text_width(CenaZaMj, out[h].size)
    /\ \A k \in Rows :
          out[k].total_x + calculate_text_width(out[k].line_total, out[k].size)
            = right_half_max
    /\ \A k \in Emitted("total") :
          out[k].x + calculate_text_width(out[k].text, out[k].size)
            = right_half_max

\* a finished page with a VAT number drawn and two rows whose per-unit
\* prices differ in width, one of them as wide as no line total
C24_Witness ==
    /\ pc = "done"
    /\ \E k \in Emitted("entity") : out[k].vat # <<>>
    /\ Emitted("payment") # {} /\ Emitted("dates") # {}
    /\ Emitted("total") # {}
    /\ \E j, k \in Rows :
          /\ out[j].unit_w # out[k].unit_w
          /\ out[j].unit_w # out[j].total_w
          /\ out[j].unit_w # out[k].total_w

(***************************************************************************)
(* Properties of calculate_text_width (UnitSpec)                           *)
(***************************************************************************)
\* the advances of every character of the words, spaces left out
AdvanceOfWords(text) == SumAdvance(Flatten(WordsOf(text)))

\* the width in thousandths of a point claimed for a text of n words at a
\* size: the n word widths and n - 1 space advances
ClaimedPoints(text, size) ==
    size * (AdvanceOfWords(text) + (Len(WordsOf(text)) - 1) * SpaceAdvance)

\* C25: for a text of n >= 1 words calculate_text_width returns the sum of
\* the n scaled word widths plus (n - 1) space advances, converted from
\* points to millimetres (1 pt = 25.4 / 72 mm, the result cut to a hundredth
\* of a millimetre).
C25_TextWidthIsWordsPlusSpaces ==
    call.fn = "text_width" =>
        /\ call.result * 3600 <= 127 * ClaimedPoints(call.text, call.size)
        /\ 127 * ClaimedPoints(call.text, call.size)
              < (call.result + 1) * 3600

\* a text of three words has been measured at the size of the grand total
C25_Witness ==
    /\ call.fn = "text_width"
    /\ Len(WordsOf(call.text)) = 3
    /\ call.size = total_font_size
    /\ call.result > 0

(***************************************************************************)
(* Properties of RegistrationNumber values (UnitSpec)                      *)
(***************************************************************************)
\* C26: every RegistrationNumber that comes into existence, by parsing a
\* string or by deserialising one, holds eight digits whose last is the
\* check digit of the first seven, so from_str would accept what it holds.
C26_EveryRegistrationNumberIsValid ==
    (/\ call.fn \in {"registration_number", "registration_number_de"}
     /\ call.result.status = "ok")
        => /\ IsRegistrationNumber(RegistrationNumber_get(call.result))
           /\ RegistrationNumber_from_str(
                  RegistrationNumber_get(call.result)).status = "ok"

(***************************************************************************)
(* Properties of PaymentMethod::from_str (UnitSpec)                        *)
(***************************************************************************)
\* the text after the first space of t, empty when t has no space
AfterFirstSpace(t) ==
    IF \A i \in 1..Len(t) : t[i] # " " THEN <<>>
    ELSE SubSeq(t, (CHOOSE i \in 1..Len(t) :
                       t[i] = " " /\ \A j \in 1..(i - 1) : t[j] # " ") + 1,
                Len(t))

HasPrefix(t, a, b, c, d) ==
    Len(t) >= 4 /\ t[1] = a /\ t[2] = b /\ t[3] = c /\ t[4] = d

\* C27: from_str gives Cash only for "cash", Card(t) for every input that
\* starts with "card" and BankTransfer(t) for every input that starts with
\* "bank", t being the text after the first space of the input (empty when
\* there is none), and for every other input an error naming the input.
C27_PaymentMethodParse ==
    call.fn = "payment_method" =>
        /\ (call.result.status = "ok" /\ call.result.value.tag = "Cash")
              <=> call.input = <<"c", "a", "s", "h">>
        /\ HasPrefix(call.input, "c", "a", "r", "d") =>
              /\ call.result.status = "ok"
              /\ call.result.value.tag = "Card"
              /\ call.result.value.text = AfterFirstSpace(call.input)
        /\ HasPrefix(call.input, "b", "a", "n", "k") =>
              /\ call.result.status = "ok"
              /\ call.result.value.tag = "BankTransfer"
              /\ call.result.value.text = AfterFirstSpace(call.input)
        /\ call.result.status = "err"
              <=> /\ call.input # <<"c", "a", "s", "h">>
                  /\ ~HasPrefix(call.input, "c", "a", "r", "d")
                  /\ ~HasPrefix(call.input, "b", "a", "n", "k")
        /\ call.result.status = "err" =>
              /\ Len(call.result.message) > Len(call.input)
              /\ SubSeq(call.result.message,
                        Len(call.result.message) - Len(call.input) + 1,
                        Len(call.result.message)) = call.input

\* a bank transfer parsed from an input with two spaces in a row after the
\* prefix: the variable symbol starts with a space
C27_Witness ==
    /\ call.fn = "payment_method"
    /\ call.result.status = "ok"
    /\ call.result.value.tag = "BankTransfer"
    /\ Len(call.result.value.text) > 1
    /\ call.result.value.text[1] = " "

====
